---- MODULE Spec2Model ----
(***************************************************************************)
(* The resume optimization route: src/src/app/api/resume/optimize/route.ts *)
(*                                                                         *)
(* POST authenticates the caller, validates one uploaded file, has the     *)
(* remote service parse it, normalizes the parsed content with             *)
(* nullToUndefined, has the remote service render it, and answers with     *)
(* one JSON response.  A request is modelled from its first await to its   *)
(* response: one action per await of the handler, each carrying the        *)
(* synchronous code that follows the await.                                *)
(*                                                                         *)
(* JavaScript values are tagged records: [t |-> "null"], [t |->            *)
(* "undefined"], [t |-> "string", v |-> s], [t |-> "number", v |-> n],     *)
(* [t |-> "array", items |-> seq], [t |-> "object", props |-> f] where f   *)
(* maps the object's own enumerable string keys to their values, and       *)
(* [t |-> "file", name |-> chars, size |-> n] for an uploaded File.  File  *)
(* names are sequences of one-character strings.                           *)
(***************************************************************************)
EXTENDS Integers, Sequences, FiniteSets, TLC

VARIABLES
    pc,                 \* the await the handler is suspended at, or "done"
    USERESUME_API_KEY,  \* process.env.USERESUME_API_KEY, read at module load
    request,            \* the "file" entry of the request's form data
    session,            \* what auth.api.getSession resolved to
    file,               \* formData.get("file")
    parseResult,        \* what client.parseResume resolved to
    resumeContent,      \* nullToUndefined(parseResult.data)
    createResult,       \* what client.createResume resolved to
    error,              \* the exception the catch block caught, and where
    calls,              \* the remote calls made, in order
    responses           \* the responses returned (NextResponse.json)

vars == <<pc, USERESUME_API_KEY, request, session, file, parseResult,
          resumeContent, createResult, error, calls, responses>>

----------------------------------------------------------------------------
(* JavaScript values *)

Undefined == [t |-> "undefined"]
Null == [t |-> "null"]
Str(s) == [t |-> "string", v |-> s]
Num(n) == [t |-> "number", v |-> n]
Arr(items) == [t |-> "array", items |-> items]
Obj(props) == [t |-> "object", props |-> props]
File(name, size) == [t |-> "file", name |-> name, size |-> size]

\* A variable that has not been assigned yet.
Unset == [t |-> "unset"]

\* !v : the values JavaScript coerces to false.
Falsy(v) ==
    \/ v.t \in {"undefined", "null"}
    \/ v.t = "string" /\ v.v = ""
    \/ v.t = "number" /\ v.v = 0

----------------------------------------------------------------------------
(* The bounds of the model *)

\* nullToUndefined is checked on every value of at most MaxNodes nodes.
MaxNodes == 4

\* The parse call returns every value of at most MaxDataNodes nodes.
MaxDataNodes == 3

\* The keys a mapping may hold, in the order Object.entries lists them.
KeyOrder == <<"name", "skills", "__proto__">>
Keys == {KeyOrder[i] : i \in DOMAIN KeyOrder}

Leaves == {Null, Str("A")}

\* The place of key k among the keys K, in KeyOrder.
Rank(k, K) ==
    LET i == CHOOSE j \in DOMAIN KeyOrder : KeyOrder[j] = k
    IN Cardinality({j \in 1..i : KeyOrder[j] \in K})

\* The mappings whose values are, in key order, the elements of s.
ObjectsOver(s) ==
    {Obj([k \in K |-> s[Rank(k, K)]]) :
        K \in {K \in SUBSET Keys : Cardinality(K) = Len(s)}}

RECURSIVE ValuesOfSize(_), SeqsOfTotal(_)
\* The values of exactly n nodes (a leaf, a sequence or a mapping is a node).
ValuesOfSize(n) ==
    IF n = 1
    THEN Leaves \cup {Arr(<<>>), Obj(<<>>)}
    ELSE {Arr(s) : s \in SeqsOfTotal(n - 1) \ {<<>>}}
         \cup UNION {ObjectsOver(s) : s \in SeqsOfTotal(n - 1) \ {<<>>}}

\* The sequences of values whose sizes add up to t.
SeqsOfTotal(t) ==
    IF t = 0
    THEN {<<>>}
    ELSE UNION {{<<v>> \o s : v \in ValuesOfSize(i), s \in SeqsOfTotal(t - i)} :
                    i \in 1..t}

ValuesUpTo(n) == UNION {ValuesOfSize(i) : i \in 1..n}

NormalizeInputs == ValuesUpTo(MaxNodes)
ParseData == ValuesUpTo(MaxDataNodes) \cup {Undefined}

----------------------------------------------------------------------------
(* nullToUndefined, route.ts lines 7-19 *)

\* The own keys of a mapping, as Object.entries lists them.
ObjectEntries(props) == SelectSeq(KeyOrder, LAMBDA k : k \in DOMAIN props)

\* result[key] = value, on an object created by {}.  Assigning to the key
\* "__proto__" runs the accessor inherited from Object.prototype, which sets
\* or ignores the prototype and creates no own property.  A value is its own
\* enumerable properties (what Object.entries and JSON.stringify see); the
\* prototype is not part of it.
SetProperty(result, key, value) ==
    IF key = "__proto__"
    THEN result
    ELSE [k \in DOMAIN result \cup {key} |->
              IF k = key THEN value ELSE result[k]]

RECURSIVE SkipFirstNullToUndefined(_), SkipFirstCopyEntries(_, _, _)
\* nullToUndefined with the sequence branch starting at the second element.
SkipFirstNullToUndefined(obj) ==
    IF obj.t = "null" THEN Undefined
    ELSE IF obj.t \notin {"array", "object"} THEN obj
    ELSE IF obj.t = "array"
    THEN Arr([i \in 1..(Len(obj.items) - 1) |->
                  SkipFirstNullToUndefined(obj.items[i + 1])])
    ELSE Obj(SkipFirstCopyEntries(<<>>, obj.props, ObjectEntries(obj.props)))

SkipFirstCopyEntries(result, props, keys) ==
    IF keys = <<>>
    THEN result
    ELSE SkipFirstCopyEntries(
             SetProperty(result, Head(keys),
                         SkipFirstNullToUndefined(props[Head(keys)])),
             props, Tail(keys))

RECURSIVE nullToUndefined(_), CopyEntries(_, _, _)
nullToUndefined(obj) ==
    IF obj.t = "null" THEN Undefined
    ELSE IF obj.t \notin {"array", "object"} THEN obj
    ELSE IF obj.t = "array"
    THEN Arr([i \in DOMAIN obj.items |-> nullToUndefined(obj.items[i])])
    ELSE Obj(CopyEntries(<<>>, obj.props, ObjectEntries(obj.props)))

\* The for loop of lines 15-17 over the entries still to copy.
CopyEntries(result, props, keys) ==
    IF keys = <<>>
    THEN result
    ELSE CopyEntries(
             SetProperty(result, Head(keys), nullToUndefined(props[Head(keys)])),
             props, Tail(keys))

----------------------------------------------------------------------------
(* nullToUndefined on its own: the input is drawn in parseResult.data *)

InitNormalize ==
    /\ pc = "nullToUndefined"
    /\ USERESUME_API_KEY = Str("key")
    /\ request = Null
    /\ session = Unset
    /\ file = Unset
    /\ \E x \in NormalizeInputs : parseResult = [success |-> TRUE, data |-> x]
    /\ resumeContent = Unset
    /\ createResult = Unset
    /\ error = Unset
    /\ calls = <<>>
    /\ responses = <<>>

Normalize ==
    /\ pc = "nullToUndefined"
    /\ resumeContent' = nullToUndefined(parseResult.data)
    /\ pc' = "normalized"
    /\ UNCHANGED <<USERESUME_API_KEY, request, session, file, parseResult,
                   createResult, error, calls, responses>>

SpecNormalize == InitNormalize /\ [][Normalize]_vars

----------------------------------------------------------------------------
(* File names, route.ts line 55 *)

UpperCase == <<"A", "B", "C", "D", "E", "F", "G", "H", "I", "J", "K", "L", "M",
               "N", "O", "P", "Q", "R", "S", "T", "U", "V", "W", "X", "Y", "Z">>
LowerCase == <<"a", "b", "c", "d", "e", "f", "g", "h", "i", "j", "k", "l", "m",
               "n", "o", "p", "q", "r", "s", "t", "u", "v", "w", "x", "y", "z">>

\* String.prototype.toLowerCase, on a sequence of characters.
ToLowerCase(name) ==
    [i \in DOMAIN name |->
        IF \E j \in DOMAIN UpperCase : UpperCase[j] = name[i]
        THEN LowerCase[CHOOSE j \in DOMAIN UpperCase : UpperCase[j] = name[i]]
        ELSE name[i]]

\* String.prototype.endsWith
EndsWith(name, suffix) ==
    /\ Len(name) >= Len(suffix)
    /\ SubSeq(name, Len(name) - Len(suffix) + 1, Len(name)) = suffix

\* String.prototype.includes
Includes(name, part) ==
    \E i \in 1..(Len(name) - Len(part) + 1) :
        SubSeq(name, i, i + Len(part) - 1) = part

DotPdf == <<".", "p", "d", "f">>

\* The type check written with includes instead of endsWith.
IncludesPdf(name) == Includes(ToLowerCase(name), DotPdf)

\* file.name.toLowerCase().endsWith(".pdf")
IsPdfName(name) == EndsWith(ToLowerCase(name), DotPdf)

\* 5 * 1024 * 1024, line 63
MaxFileSize == 5 * 1024 * 1024

\* The size check written with >= instead of >.
SizeAtLeastLimit(size) == size >= MaxFileSize

\* file.size > 5 * 1024 * 1024
TooLarge(size) == size > MaxFileSize

----------------------------------------------------------------------------
(* The inputs of a request *)

FileNames ==
    { <<"c", "v", ".", "p", "d", "f">>,
      <<"C", "V", ".", "P", "D", "F">>,
      <<"c", "v", ".", "d", "o", "c", "x">>,
      <<"c", "v", ".", "p", "d", "f", ".", "t", "x", "t">>,
      <<"c", "v", "p", "d", "f">>,
      <<>> }

FileSizes == {10240, MaxFileSize, MaxFileSize + 1}

\* What the request holds under the form field "file": nothing, a text
\* field, or an uploaded file.
FormEntries ==
    {Null, Str("text")} \cup {File(n, s) : n \in FileNames, s \in FileSizes}

\* process.env.USERESUME_API_KEY
ApiKeys == {Undefined, Str("key")}

\* auth.api.getSession resolves to a session or to null.
Sessions == {Null, Obj([k \in {"user"} |-> Str("u1")])}

\* The exceptions an await may raise.  UseResumeError carries an optional
\* HTTP status; other errors are not instances of it whatever they carry.
\* A carried status is an HTTP error status, never 0.
Errors ==
    { [name |-> "UseResumeError", status |-> Num(429), message |-> "rate limited"],
      [name |-> "UseResumeError", status |-> Undefined, message |-> "network down"],
      [name |-> "Error", status |-> Num(404), message |-> "not found"] }

\* Reading file.name of a form entry that is a string gives undefined, and
\* undefined.toLowerCase() raises a TypeError.
NameTypeError ==
    [name |-> "TypeError", status |-> Undefined,
     message |-> "Cannot read properties of undefined (reading 'toLowerCase')"]

\* What client.parseResume resolves to.
ParseResults == [success : BOOLEAN, data : ParseData]

FileUrl == Str("https://x/y.pdf")
ExpiresAt == Str("2025-01-01T00:00:00Z")

\* createResult.data: absent, without a file URL, with an empty one, or full.
CreateData ==
    { Undefined,
      Obj([k \in {"file_url_expires_at"} |-> ExpiresAt]),
      Obj([k \in {"file_url", "file_url_expires_at"} |->
              IF k = "file_url" THEN Str("") ELSE ExpiresAt]),
      Obj([k \in {"file_url", "file_url_expires_at"} |->
              IF k = "file_url" THEN FileUrl ELSE ExpiresAt]) }

\* createResult.meta: absent, or the metering counters.
CreateMeta ==
    { Undefined,
      Obj([k \in {"credits_used", "credits_remaining"} |->
              IF k = "credits_used" THEN Num(1) ELSE Num(9)]) }

\* What client.createResume resolves to.
CreateResults == [success : BOOLEAN, data : CreateData, meta : CreateMeta]

\* o.key, and o?.key when o is undefined: undefined for a missing key.
Get(o, key) ==
    IF o.t = "object" /\ key \in DOMAIN o.props THEN o.props[key] ELSE Undefined

----------------------------------------------------------------------------
(* The guards and the responses of POST *)

\* NextResponse.json(body, {status}); the status defaults to 200.
Json(body, status) == [status |-> status, body |-> body]

ErrorBody(message) == [error |-> message]

\* The session check written as session === undefined.
SessionIsUndefined(s) == s.t = "undefined"

\* !session, line 28
NoSession(s) == Falsy(s)

\* lines 29-32
UnauthorizedResponse == Json(ErrorBody("Unauthorized"), 401)

\* lines 37-40
NotConfiguredResponse == Json(ErrorBody("Resume service not configured"), 500)

\* lines 48-51
NoFileResponse == Json(ErrorBody("No file provided"), 400)

\* lines 56-59
NotPdfResponse == Json(ErrorBody("Only PDF files are supported"), 400)

\* lines 64-67
TooLargeResponse == Json(ErrorBody("File size exceeds 5MB limit"), 400)

\* The parse failure answered as an unprocessable entity.
ParseFailedResponse422 ==
    Json(ErrorBody("Failed to parse resume. Please ensure the PDF is readable."), 422)

\* lines 86-89
ParseFailedResponse ==
    Json(ErrorBody("Failed to parse resume. Please ensure the PDF is readable."), 400)

\* lines 109-112
CreateFailedResponse == Json(ErrorBody("Failed to generate optimized resume"), 500)

\* The parse check without its !parseResult.data half.
ParseNotSuccess(r) == ~r.success

\* !parseResult.success || !parseResult.data, line 84
ParseFailed(r) == ~r.success \/ Falsy(r.data)

\* The create check without its file_url half.
CreateNotSuccess(r) == ~r.success

\* !createResult.success || !createResult.data?.file_url, line 107
CreateFailed(r) == ~r.success \/ Falsy(Get(r.data, "file_url"))

\* The success response with the two metering counters exchanged.
SuccessResponseSwapped(r) ==
    Json([success |-> TRUE,
          download_url |-> Get(r.data, "file_url"),
          expires_at |-> Get(r.data, "file_url_expires_at"),
          credits_used |-> Get(r.meta, "credits_remaining"),
          credits_remaining |-> Get(r.meta, "credits_used")], 200)

\* lines 118-124
SuccessResponse(r) ==
    Json([success |-> TRUE,
          download_url |-> Get(r.data, "file_url"),
          expires_at |-> Get(r.data, "file_url_expires_at"),
          credits_used |-> Get(r.meta, "credits_used"),
          credits_remaining |-> Get(r.meta, "credits_remaining")], 200)

\* lines 136-139
GenericFailureResponse ==
    Json(ErrorBody("Failed to optimize resume. Please try again."), 500)

\* The catch block answering every remote-API error with status 500.
CatchResponseAlways500(e) ==
    IF e.name = "UseResumeError"
    THEN Json(ErrorBody("Resume API error: " \o e.message), 500)
    ELSE GenericFailureResponse

\* The catch block, lines 126-140: error.status || 500
CatchResponse(e) ==
    IF e.name = "UseResumeError"
    THEN Json(ErrorBody("Resume API error: " \o e.message),
              IF Falsy(e.status) THEN 500 ELSE e.status.v)
    ELSE GenericFailureResponse

----------------------------------------------------------------------------
(* POST, route.ts lines 21-141 *)

Init ==
    /\ pc = "getSession"
    /\ USERESUME_API_KEY \in ApiKeys
    /\ request \in FormEntries
    /\ session = Unset
    /\ file = Unset
    /\ parseResult = Unset
    /\ resumeContent = Unset
    /\ createResult = Unset
    /\ error = Unset
    /\ calls = <<>>
    /\ responses = <<>>

\* return NextResponse.json(...) outside the catch block
Respond(r) ==
    /\ responses' = Append(responses, r)
    /\ pc' = "done"
    /\ UNCHANGED error

\* An exception raised at step `at` reaches the catch block, which responds.
Catch(at, e) ==
    /\ error' = [at |-> at, e |-> e]
    /\ responses' = Append(responses, CatchResponse(e))
    /\ pc' = "done"

\* The handler moves on to its next await.
Continue(next) ==
    /\ pc' = next
    /\ UNCHANGED <<error, responses>>

\* await auth.api.getSession(...), then lines 28-41
GetSession ==
    /\ pc = "getSession"
    /\ UNCHANGED <<USERESUME_API_KEY, request, file, parseResult, resumeContent,
                   createResult, calls>>
    /\ \/ \E e \in Errors :
            /\ Catch("getSession", e)
            /\ UNCHANGED session
       \/ \E s \in Sessions :
            /\ session' = s
            /\ IF NoSession(s)
               THEN Respond(UnauthorizedResponse)
               ELSE IF Falsy(USERESUME_API_KEY)
               THEN Respond(NotConfiguredResponse)
               ELSE Continue("formData")

\* await request.formData(), then lines 45-71 up to file.arrayBuffer()
FormData ==
    /\ pc = "formData"
    /\ UNCHANGED <<USERESUME_API_KEY, request, session, parseResult,
                   resumeContent, createResult, calls>>
    /\ \/ \E e \in Errors :
            /\ Catch("formData", e)
            /\ UNCHANGED file
       \/ /\ file' = request
          /\ IF Falsy(request)
             THEN Respond(NoFileResponse)
             ELSE IF request.t # "file"
             THEN Catch("fileName", NameTypeError)
             ELSE IF ~IsPdfName(request.name)
             THEN Respond(NotPdfResponse)
             ELSE IF TooLarge(request.size)
             THEN Respond(TooLargeResponse)
             ELSE Continue("arrayBuffer")

\* await file.arrayBuffer(), then lines 75-82: the parse call is made
ArrayBuffer ==
    /\ pc = "arrayBuffer"
    /\ UNCHANGED <<USERESUME_API_KEY, request, session, file, parseResult,
                   resumeContent, createResult>>
    /\ \/ \E e \in Errors :
            /\ Catch("arrayBuffer", e)
            /\ UNCHANGED calls
       \/ /\ calls' = Append(calls, "parse")
          /\ Continue("parseResume")

\* await client.parseResume(...), then lines 84-105: the create call is made
ParseResume ==
    /\ pc = "parseResume"
    /\ UNCHANGED <<USERESUME_API_KEY, request, session, file, createResult>>
    /\ \/ \E e \in Errors :
            /\ Catch("parseResume", e)
            /\ UNCHANGED <<parseResult, resumeContent, calls>>
       \/ \E r \in ParseResults :
            /\ parseResult' = r
            /\ IF ParseFailed(r)
               THEN /\ Respond(ParseFailedResponse)
                    /\ UNCHANGED <<resumeContent, calls>>
               ELSE /\ resumeContent' = nullToUndefined(r.data)
                    /\ calls' = Append(calls, "create")
                    /\ Continue("createResume")

\* await client.createResume(...), then lines 107-124
CreateResume ==
    /\ pc = "createResume"
    /\ UNCHANGED <<USERESUME_API_KEY, request, session, file, parseResult,
                   resumeContent, calls>>
    /\ \/ \E e \in Errors :
            /\ Catch("createResume", e)
            /\ UNCHANGED createResult
       \/ \E r \in CreateResults :
            /\ createResult' = r
            /\ IF CreateFailed(r)
               THEN Respond(CreateFailedResponse)
               ELSE Respond(SuccessResponse(r))

\* One step of the handler: the await it is suspended at settles.
POST ==
    \/ GetSession
    \/ FormData
    \/ ArrayBuffer
    \/ ParseResume
    \/ CreateResume

Next == POST

Spec == Init /\ [][Next]_vars

----------------------------------------------------------------------------
(* Properties *)

Done == pc = "done"

\* The request carries an uploaded file whose name ends in ".pdf", whatever
\* the case of its letters.
UploadedPdfName == request.t = "file" /\ EndsWith(ToLowerCase(request.name), DotPdf)
UploadedOtherName == request.t = "file" /\ ~EndsWith(ToLowerCase(request.name), DotPdf)

Made(call) == \E i \in DOMAIN calls : calls[i] = call

ErrorResponse(message, status) == <<[status |-> status, body |-> [error |-> message]]>>

ParseMessage == "Failed to parse resume. Please ensure the PDF is readable."

\* C1: when session resolution returns no session, the one response is 401
\* {error: "Unauthorized"} and neither remote call is made, whatever the
\* uploaded file and the credential configuration.
C1_NoSessionUnauthorized ==
    session = Null =>
        /\ Done
        /\ responses = ErrorResponse("Unauthorized", 401)
        /\ calls = <<>>

\* A request with no session that carries a valid PDF and a configured key.
C1_Witness ==
    /\ session = Null
    /\ Done
    /\ UploadedPdfName
    /\ request.size = 10240
    /\ USERESUME_API_KEY = Str("key")

\* C2 as stated: every uploaded file whose name does not end in ".pdf" is
\* answered with status 400 and no remote call.
C2_OtherNameAlways400 ==
    (Done /\ UploadedOtherName) =>
        /\ responses[1].status = 400
        /\ calls = <<>>

\* C2 amended: for an uploaded file whose name does not end in ".pdf" no
\* remote call is ever made, and when the session resolved, the credential is
\* configured and no exception was raised, the response is 400 "Only PDF
\* files are supported".
C2_OtherNameRejected ==
    UploadedOtherName =>
        /\ calls = <<>>
        /\ (Done /\ session.t = "object" /\ ~Falsy(USERESUME_API_KEY) /\ error = Unset)
              => responses = ErrorResponse("Only PDF files are supported", 400)

\* An authenticated request whose file is named cv.pdf.txt was rejected.
C2_Witness ==
    /\ Done
    /\ request.t = "file"
    /\ request.name = <<"c", "v", ".", "p", "d", "f", ".", "t", "x", "t">>
    /\ session.t = "object"
    /\ file = request
    /\ responses = ErrorResponse("Only PDF files are supported", 400)

\* C3 as stated: every file of at most 5,242,880 bytes reaches the parse
\* call, and every larger file is answered 400 "File size exceeds 5MB limit"
\* with no remote call.
C3_SizeAloneDecides ==
    (Done /\ request.t = "file") =>
        IF request.size <= 5242880
        THEN Made("parse")
        ELSE /\ responses = ErrorResponse("File size exceeds 5MB limit", 400)
             /\ calls = <<>>

\* C3 amended: for a request that reaches the size check (session resolved,
\* credential configured, form data extracted, name ending in ".pdf"), a file
\* of at most 5,242,880 bytes passes the check and, once the file is read
\* without an exception, the parse call is made; a larger file is answered
\* 400 "File size exceeds 5MB limit" with no remote call.
C3_SizeGuardInclusive ==
    (UploadedPdfName /\ file = request) =>
        IF request.size <= 5242880
        THEN /\ responses # ErrorResponse("File size exceeds 5MB limit", 400)
             /\ (pc # "arrayBuffer" /\ (error = Unset \/ error.at # "arrayBuffer"))
                   => Head(calls) = "parse"
        ELSE /\ Done
             /\ responses = ErrorResponse("File size exceeds 5MB limit", 400)
             /\ calls = <<>>

\* A file of exactly 5,242,880 bytes went on to the parse call.
C3_Witness ==
    /\ UploadedPdfName
    /\ request.size = 5242880
    /\ calls = <<"parse">>

\* C4: the create call is made only after a parse call that returned
\* success with data; a parse call that reports failure, returns no data or
\* raises is never followed by a create call.
C4_CreateOnlyAfterParsed ==
    /\ Made("create") =>
          /\ calls = <<"parse", "create">>
          /\ parseResult # Unset
          /\ parseResult.success
          /\ ~Falsy(parseResult.data)
    /\ (parseResult # Unset /\ (~parseResult.success \/ Falsy(parseResult.data)))
          => ~Made("create")
    /\ (error # Unset /\ error.at = "parseResume") => ~Made("create")

\* The parse call reported success without data, and the request ended.
C4_Witness ==
    /\ Done
    /\ parseResult # Unset
    /\ parseResult.success
    /\ parseResult.data = Undefined
    /\ calls = <<"parse">>

\* C5: when the create call reports failure or returns no file URL, the
\* response is 500 with the generic "Failed to generate optimized resume".
C5_CreateFailureGeneric ==
    (/\ createResult # Unset
     /\ \/ ~createResult.success
        \/ Get(createResult.data, "file_url") \in {Undefined, Str("")})
    => responses = ErrorResponse("Failed to generate optimized resume", 500)

\* The create call reported success with an empty file URL.
C5_Witness ==
    /\ Done
    /\ createResult # Unset
    /\ createResult.success
    /\ Get(createResult.data, "file_url") = Str("")

\* Both remote calls were made and succeeded, and create returned a file URL.
BothSucceeded ==
    /\ calls = <<"parse", "create">>
    /\ parseResult # Unset
    /\ parseResult.success
    /\ ~Falsy(parseResult.data)
    /\ createResult # Unset
    /\ createResult.success
    /\ Get(createResult.data, "file_url") \notin {Undefined, Str("")}

\* C6: a request ends with exactly one response and none before it ends;
\* the response is the success response (status 200, download_url the file
\* URL, expires_at and the credits passed through) exactly when both remote
\* calls were made and succeeded with a file URL, and otherwise a body with
\* an error field only.
C6_OneResponse ==
    /\ Len(responses) <= 1
    /\ Done <=> Len(responses) = 1
    /\ Done =>
          IF BothSucceeded
          THEN responses =
                 << [status |-> 200,
                     body |-> [success |-> TRUE,
                               download_url |-> createResult.data.props["file_url"],
                               expires_at |-> Get(createResult.data, "file_url_expires_at"),
                               credits_used |-> Get(createResult.meta, "credits_used"),
                               credits_remaining |-> Get(createResult.meta, "credits_remaining")]] >>
          ELSE DOMAIN responses[1].body = {"error"}

\* The scenario of the specification: URL, expiry, 1 credit used, 9 left.
C6_Witness ==
    /\ Done
    /\ responses[1].status = 200
    /\ responses[1].body.download_url = Str("https://x/y.pdf")
    /\ responses[1].body.credits_used = Num(1)
    /\ responses[1].body.credits_remaining = Num(9)

\* C7: an exception raised at any step is answered by the catch block: a
\* UseResumeError with its carried status, or 500 when it carries none, and
\* "Resume API error: <message>"; any other exception with 500 and the
\* generic message.
C7_ExceptionsAnswered ==
    error # Unset =>
        /\ Done
        /\ responses =
             IF error.e.name = "UseResumeError"
             THEN ErrorResponse("Resume API error: " \o error.e.message,
                                IF error.e.status = Undefined
                                THEN 500 ELSE error.e.status.v)
             ELSE ErrorResponse("Failed to optimize resume. Please try again.", 500)

\* The parse call raised a remote-API error with status 429, "rate limited".
C7_Witness ==
    /\ error # Unset
    /\ error.at = "parseResume"
    /\ responses = ErrorResponse("Resume API error: rate limited", 429)

\* C8 as stated: a parse call that raises is answered like one that returns
\* without success or data, with status 400 and the parse message.
C8_ParseThrowIs400 ==
    (Done /\ error # Unset /\ error.at = "parseResume")
        => responses = ErrorResponse(ParseMessage, 400)

\* C8 amended: a parse call that returns without success or without data is
\* answered 400 with the parse message; a parse call that raises is answered
\* by the catch block instead, never with the parse message, and with status
\* 500 unless it is a UseResumeError carrying another status.
C8_ParseFailureByKind ==
    /\ (parseResult # Unset /\ (~parseResult.success \/ Falsy(parseResult.data)))
          => responses = ErrorResponse(ParseMessage, 400)
    /\ (error # Unset /\ error.at = "parseResume") =>
          /\ Len(responses) = 1
          /\ responses[1].body.error # ParseMessage
          /\ responses[1].status # 500 =>
                /\ error.e.name = "UseResumeError"
                /\ responses[1].status = error.e.status.v

\* The parse call returned without success.
C8_Witness ==
    /\ Done
    /\ parseResult # Unset
    /\ ~parseResult.success
    /\ responses[1].status = 400

RECURSIVE HasNull(_)
\* A null occurs somewhere in v.
HasNull(v) ==
    \/ v.t = "null"
    \/ v.t = "array" /\ \E i \in DOMAIN v.items : HasNull(v.items[i])
    \/ v.t = "object" /\ \E k \in DOMAIN v.props : HasNull(v.props[k])

RECURSIVE HasProtoKey(_)
\* Some mapping of v has the own key "__proto__".
HasProtoKey(v) ==
    \/ v.t = "array" /\ \E i \in DOMAIN v.items : HasProtoKey(v.items[i])
    \/ v.t = "object" /\ \/ "__proto__" \in DOMAIN v.props
                         \/ \E k \in DOMAIN v.props : HasProtoKey(v.props[k])

RECURSIVE Preserved(_, _)
\* y is x with every null replaced by undefined and nothing else changed.
Preserved(x, y) ==
    IF x.t = "null" THEN y = Undefined
    ELSE IF x.t = "array"
    THEN /\ y.t = "array"
         /\ Len(y.items) = Len(x.items)
         /\ \A i \in DOMAIN x.items : Preserved(x.items[i], y.items[i])
    ELSE IF x.t = "object"
    THEN /\ y.t = "object"
         /\ DOMAIN y.props = DOMAIN x.props
         /\ \A k \in DOMAIN x.props : Preserved(x.props[k], y.props[k])
    ELSE y = x

\* C9: normalization is idempotent: normalizing a normalized value gives
\* the same value.
C9_Idempotent ==
    pc = "normalized" => nullToUndefined(resumeContent) = resumeContent

\* {skills: [null, "A"]} was normalized.
C9_Witness ==
    /\ pc = "normalized"
    /\ parseResult.data = Obj([k \in {"skills"} |-> Arr(<<Null, Str("A")>>)])
    /\ resumeContent = Obj([k \in {"skills"} |-> Arr(<<Undefined, Str("A")>>)])

\* C10: normalization preserves the structure: sequences keep their length
\* and order, mappings keep their key-set, every null at any depth becomes
\* undefined, other scalars are unchanged, and no null is left.
C10_StructurePreserved ==
    pc = "normalized" =>
        /\ Preserved(parseResult.data, resumeContent)
        /\ ~HasNull(resumeContent)

\* What holds of the code in place of C10: the structure is preserved for
\* every value none of whose mappings has the key "__proto__", and no null
\* is left in any case.
StructurePreservedWithoutProtoKey ==
    pc = "normalized" =>
        /\ ~HasProtoKey(parseResult.data) => Preserved(parseResult.data, resumeContent)
        /\ ~HasNull(resumeContent)

====
